---- MODULE Spec2Model ----
(***************************************************************************)
(* A model of the Posts Explorer page (src/app/page.tsx): the corpus store *)
(* and its loaders, the faceted filter effect, the markup walk of          *)
(* parseXMLContent and the block layout of modalContent.                   *)
(*                                                                         *)
(* Strings are sequences of one-character strings, so that trim, split,    *)
(* toLowerCase, includes, startsWith and endsWith are computed and not     *)
(* assumed.  An optional field of a record is a field that is, or is not,  *)
(* in the record's DOMAIN.  A nullable value is a sequence of length 0     *)
(* (null) or 1.                                                            *)
(***************************************************************************)
EXTENDS Integers, Sequences, FiniteSets, TLC

VARIABLES
    allPosts,       \* useState<Post[]>                      (line 89)
    filteredPosts,  \* useState<Post[]>                      (line 90)
    selectedPost,   \* useState<Post | null>: <<>> or <<p>>  (line 91)
    loading,        \* useState(true)                        (line 93)
    loadError,      \* useState<string | null>: <<>> or <<m>> (line 94)
    statusText,     \* useState("Fetching data...")          (line 95)
    progress,       \* useState(0)                           (line 96)
    filtersOpen,    \* useState(false)                       (line 98)
    statsOpen,      \* useState(false)                       (line 99)
    filters,        \* useState<ActiveFilters>               (line 101)
    cancelled,      \* the mount effect's flag               (line 113)
    loadPc,         \* where load() is                       (lines 115-151)
    uploadPc,       \* where handleFileUpload() is           (lines 240-275)
    effectPending,  \* a dependency of the filter effect changed, effect not yet run
    modalContent,   \* the useMemo of lines 278-379, as a sequence of blocks
    parsed,         \* the ParsedXML that memo computed (line 282)
    response,       \* the body of the fetched Response, until it is read: <<>> or <<text>>
    uploadFile,     \* the File handleFileUpload is reading: <<>> or <<[name, text]>>
    domEngine,      \* which DOMParser the page runs on
    tagUniverse,    \* the useMemo of lines 160-177
    filtersUpdate   \* the update of filters the last handler queued, until the effect
                    \* that follows its render has run: <<>> or <<[op, prev]>>, prev
                    \* being the previous criteria object as the updater left it

vars == <<allPosts, filteredPosts, selectedPost, loading, loadError, statusText,
          progress, filtersOpen, statsOpen, filters, cancelled, loadPc, uploadPc,
          effectPending, modalContent, parsed, response, uploadFile, domEngine, tagUniverse,
          filtersUpdate>>

-----------------------------------------------------------------------------
(* Strings *)

NL == "\n"
SP == " "

Upper == <<"A","B","C","D","E","F","G","H","I","J","K","L","M",
           "N","O","P","Q","R","S","T","U","V","W","X","Y","Z">>
Lower == <<"a","b","c","d","e","f","g","h","i","j","k","l","m",
           "n","o","p","q","r","s","t","u","v","w","x","y","z">>

LowerChar(c) ==
    IF \E i \in 1..Len(Upper) : Upper[i] = c
    THEN Lower[CHOOSE i \in 1..Len(Upper) : Upper[i] = c]
    ELSE c

\* String.prototype.toLowerCase
ToLowerCase(s) == [i \in 1..Len(s) |-> LowerChar(s[i])]

IsWs(c) == c \in {SP, NL}

\* String.prototype.trim
Trim(s) ==
    LET keep == {i \in 1..Len(s) : ~IsWs(s[i])}
    IN  IF keep = {} THEN <<>>
        ELSE LET lo == CHOOSE i \in keep : \A j \in keep : i <= j
                 hi == CHOOSE i \in keep : \A j \in keep : j <= i
             IN  SubSeq(s, lo, hi)

\* String.prototype.includes
Includes(s, q) ==
    \E i \in 0..(Len(s) - Len(q)) : SubSeq(s, i + 1, i + Len(q)) = q

\* String.prototype.startsWith
StartsWith(s, p) == Len(p) <= Len(s) /\ SubSeq(s, 1, Len(p)) = p

\* String.prototype.endsWith
EndsWith(s, p) == Len(p) <= Len(s) /\ SubSeq(s, Len(s) - Len(p) + 1, Len(s)) = p

\* String.prototype.split with a non-empty separator: leftmost matches, not overlapping
RECURSIVE Split(_, _)
Split(s, sep) ==
    LET hits == {i \in 1..(Len(s) - Len(sep) + 1) : SubSeq(s, i, i + Len(sep) - 1) = sep}
    IN  IF hits = {} THEN <<s>>
        ELSE LET i == CHOOSE h \in hits : \A k \in hits : h <= k
             IN  <<SubSeq(s, 1, i - 1)>> \o Split(SubSeq(s, i + Len(sep), Len(s)), sep)

\* Array.prototype.includes
ArrayIncludes(arr, x) == \E i \in 1..Len(arr) : arr[i] = x

\* Joining lines with a separator character (builds the inputs)
RECURSIVE Join(_, _)
Join(parts, c) ==
    IF parts = <<>> THEN <<>>
    ELSE IF Len(parts) = 1 THEN parts[1]
    ELSE parts[1] \o <<c>> \o Join(Tail(parts), c)

\* All sequences over S of length lo..hi
SeqsOf(S, lo, hi) == UNION {[1..n -> S] : n \in lo..hi}

Has(rec, f) == f \in DOMAIN rec

Null == <<>>
Some(x) == <<x>>

-----------------------------------------------------------------------------
(* Corpus input: the text of posts.jsonl or of an uploaded file.            *)
(* A text is a sequence of tokens: the whitespace characters NL and SP, the *)
(* JSON punctuation "[" "," "]", a token for the JSON text of each record   *)
(* of Records, and "bad", a token no JSON value contains.                   *)

\* Facet ids (strings; some hold an underscore)
M1 == <<"m","_","1">>
M2 == <<"M","2">>
T1 == <<"t","_","1">>
T2 == <<"t","2">>
A1 == <<"a","_","1">>

\* The records the corpus texts of Spec hold
PostR1 ==
    [title |-> <<"A","b">>, author_name |-> <<"b","a">>,
     document |-> <<"s",":",NL,"t">>,
     cluster_metadata |-> [model_ids |-> <<M1>>, topic_category_ids |-> <<T1>>,
                           post_type_category_ids |-> <<A1>>]]
PostR2 ==
    [title |-> <<"b">>,
     cluster_metadata |-> [model_ids |-> <<M2, M1>>]]
PostR3 ==
    [author_name |-> <<"A">>, raw |-> [document |-> <<"t">>]]

Records == {"R1", "R2", "R3"}

PostOf(tok) ==
    CASE tok = "R1" -> PostR1
      [] tok = "R2" -> PostR2
      [] tok = "R3" -> PostR3

ParseFail == [ok |-> FALSE, value |-> <<>>, rest |-> <<>>]

\* JSON.parse over the tokens left once JSON whitespace is dropped: a value is a
\* record, or an array [ v , ... , v ] of values.  An array value is [array |-> items].
RECURSIVE ParseValue(_)
RECURSIVE ParseItems(_, _)
ParseValue(toks) ==
    IF toks = <<>> THEN ParseFail
    ELSE IF Head(toks) \in Records
         THEN [ok |-> TRUE, value |-> PostOf(Head(toks)), rest |-> Tail(toks)]
    ELSE IF Head(toks) = "["
         THEN IF Len(toks) >= 2 /\ toks[2] = "]"
              THEN [ok |-> TRUE, value |-> [array |-> <<>>], rest |-> SubSeq(toks, 3, Len(toks))]
              ELSE ParseItems(Tail(toks), <<>>)
    ELSE ParseFail

ParseItems(toks, acc) ==
    LET v == ParseValue(toks)
    IN  IF ~v.ok \/ v.rest = <<>> THEN ParseFail
        ELSE IF Head(v.rest) = ","
             THEN ParseItems(Tail(v.rest), Append(acc, v.value))
        ELSE IF Head(v.rest) = "]"
             THEN [ok |-> TRUE, value |-> [array |-> Append(acc, v.value)], rest |-> Tail(v.rest)]
        ELSE ParseFail

\* JSON.parse(text): [ok |-> TRUE, value |-> v], or ok = FALSE when it throws SyntaxError
JSONParse(text) ==
    LET NotWs(c) == ~IsWs(c)
        r == ParseValue(SelectSeq(text, NotWs))
    IN  IF r.ok /\ r.rest = <<>> THEN [ok |-> TRUE, value |-> r.value]
        ELSE [ok |-> FALSE, value |-> <<>>]

IsArray(v) == Has(v, "array")

\* parseJSONL: [ok |-> TRUE, posts |-> ...], or ok = FALSE when a JSON.parse throws
ParseJSONLMutSkipBad(text) ==
    LET NonBlank(l) == Trim(l) # <<>>
        lines == SelectSeq(Split(Trim(text), <<NL>>), NonBlank)
        Good(l) == JSONParse(l).ok
        good == SelectSeq(lines, Good)
    IN  [ok |-> TRUE, posts |-> [i \in 1..Len(good) |-> JSONParse(good[i]).value]]

ParseJSONL(text) ==
    LET NonBlank(l) == Trim(l) # <<>>
        lines == SelectSeq(Split(Trim(text), <<NL>>), NonBlank)
    IN  IF \E i \in 1..Len(lines) : ~JSONParse(lines[i]).ok
        THEN [ok |-> FALSE, posts |-> <<>>]
        ELSE [ok |-> TRUE, posts |-> [i \in 1..Len(lines) |-> JSONParse(lines[i]).value]]

\* The parsing of handleFileUpload, lines 251-258
ParseUpload(text, name) ==
    LET lines == Split(Trim(text), <<NL>>)
    IN  IF Len(lines) > 1 \/ EndsWith(ToLowerCase(name), <<".","j","s","o","n","l">>)
        THEN ParseJSONL(text)
        ELSE LET data == JSONParse(text)
             IN  IF ~data.ok THEN [ok |-> FALSE, posts |-> <<>>]
                 ELSE [ok |-> TRUE,
                       posts |-> IF IsArray(data.value) THEN data.value.array
                                 ELSE <<data.value>>]

-----------------------------------------------------------------------------
(* The filter effect, lines 180-214 *)

EmptyFilters ==
    [title |-> <<>>, author |-> <<>>, models |-> {}, topics |-> {}, assignments |-> {}]

\* post.cluster_metadata?.<field> ?? []
FacetValues(post, field) ==
    IF Has(post, "cluster_metadata") /\ Has(post.cluster_metadata, field)
    THEN post.cluster_metadata[field]
    ELSE <<>>

\* lines 192-196, 198-202, 204-208: one group's check
GroupOkMutAll(selected, postValues) ==
    selected # {} => \A m \in selected : ArrayIncludes(postValues, m)

GroupOk(selected, postValues) ==
    IF Cardinality(selected) > 0
    THEN \E m \in selected : ArrayIncludes(postValues, m)
    ELSE TRUE

\* lines 188-210
FacetPart(post, f) ==
    /\ GroupOk(f.models, FacetValues(post, "model_ids"))
    /\ GroupOk(f.topics, FacetValues(post, "topic_category_ids"))
    /\ GroupOk(f.assignments, FacetValues(post, "post_type_category_ids"))

\* lines 185 and 186: q is the trimmed, lower-cased query
QueryOkMutNoFold(post, field, q) ==
    q # <<>> => Has(post, field) /\ Includes(post[field], q)

QueryOkMutNoGuard(post, field, q) ==
    Has(post, field) /\ Includes(ToLowerCase(post[field]), q)

QueryOk(post, field, q) ==
    ~(q # <<>> /\ ~(Has(post, field) /\ Includes(ToLowerCase(post[field]), q)))

\* lines 181-186
TextPart(post, f) ==
    LET titleQ == ToLowerCase(Trim(f.title))
        authorQ == ToLowerCase(Trim(f.author))
    IN  QueryOk(post, "title", titleQ) /\ QueryOk(post, "author_name", authorQ)

\* the predicate of allPosts.filter, lines 184-211
PostPasses(post, f) ==
    IF ~TextPart(post, f) THEN FALSE ELSE FacetPart(post, f)

\* lines 184-211: allPosts.filter(...)
FilterPosts(posts, f) ==
    LET Keep(post) == PostPasses(post, f)
    IN  SelectSeq(posts, Keep)

-----------------------------------------------------------------------------
(* tagUniverse, lines 160-177 *)

\* UTF-16 code unit order of the characters the model uses
CodeOrder == <<NL, SP, ".", "0", "1", "2", "3", ":">> \o Upper \o <<"_">> \o Lower

Code(c) == CHOOSE i \in 1..Len(CodeOrder) : CodeOrder[i] = c

\* a < b as Array.prototype.sort compares strings with no comparator
StrLess(a, b) ==
    \E k \in 1..Len(b) :
        /\ \A j \in 1..(k - 1) : j <= Len(a) /\ a[j] = b[j]
        /\ (k > Len(a) \/ Code(a[k]) < Code(b[k]))

\* Set.prototype.add on an insertion-ordered set
SetAdd(seq, x) == IF ArrayIncludes(seq, x) THEN seq ELSE Append(seq, x)

RECURSIVE SetAddAll(_, _)
SetAddAll(seq, xs) ==
    IF xs = <<>> THEN seq ELSE SetAddAll(SetAdd(seq, Head(xs)), Tail(xs))

\* lines 165-170, for one group
RECURSIVE CollectTags(_, _, _)
CollectTags(posts, field, acc) ==
    IF posts = <<>> THEN acc
    ELSE CollectTags(Tail(posts), field, SetAddAll(acc, FacetValues(Head(posts), field)))

RECURSIVE InsertSorted(_, _)
InsertSorted(sorted, x) ==
    IF sorted = <<>> THEN <<x>>
    ELSE IF StrLess(x, Head(sorted)) THEN <<x>> \o sorted
    ELSE <<Head(sorted)>> \o InsertSorted(Tail(sorted), x)

\* The array left in the order of insertion
ArraySortMutNone(arr) == arr

\* Array.prototype.sort()
RECURSIVE ArraySort(_)
ArraySort(arr) ==
    IF arr = <<>> THEN <<>>
    ELSE InsertSorted(ArraySort(SubSeq(arr, 1, Len(arr) - 1)), arr[Len(arr)])

TagUniverse(posts) ==
    [models      |-> ArraySort(CollectTags(posts, "model_ids", <<>>)),
     topics      |-> ArraySort(CollectTags(posts, "topic_category_ids", <<>>)),
     assignments |-> ArraySort(CollectTags(posts, "post_type_category_ids", <<>>))]

-----------------------------------------------------------------------------
(* parseXMLContent, lines 46-82 *)
(* A markup body is [kind |-> "text", text |-> chars], character data with  *)
(* no element (the empty and the blank body are of this kind), or           *)
(* [kind |-> "xml", wellFormed |-> b, nodes |-> ns]: ns are the top-level   *)
(* nodes an XML parser builds from the text, up to its end when it is well  *)
(* formed and up to its first error when it is not.                         *)

Element(tag, attrs, kids) ==
    [nodeType |-> "element", tagName |-> tag, attrs |-> attrs, childNodes |-> kids]
TextNode(data) ==
    [nodeType |-> "text", data |-> data, childNodes |-> <<>>]

\* an element with none of the attributes src, url, href
NoAttrs == [id |-> <<"n">>]

\* Element.getAttribute: Null when the attribute is absent
GetAttribute(el, name) ==
    IF name \in DOMAIN el.attrs THEN Some(el.attrs[name]) ELSE Null

\* Node.textContent of an element: its descendants' text, in document order
RECURSIVE TextContent(_)
RECURSIVE TextContentAll(_)
TextContent(node) ==
    IF node.nodeType = "text" THEN node.data ELSE TextContentAll(node.childNodes)
TextContentAll(nodes) ==
    IF nodes = <<>> THEN <<>> ELSE TextContent(Head(nodes)) \o TextContentAll(Tail(nodes))

TagImage == <<"i","m","a","g","e">>
TagFile == <<"f","i","l","e">>
TagLink == <<"l","i","n","k">>
TagParserError == <<"p","a","r","s","e","r","e","r","r","o","r">>

ErrorText == TextNode(<<"e","r","r">>)

\* DOMParser.parseFromString(xml, "text/xml"): doc.childNodes.  It does not throw.
\* For a text that is not well formed, a parser that follows the DOM Parsing
\* standard ("standard") returns a document holding a parsererror element alone;
\* a libxml2-based one ("libxml") keeps what it built before the error and puts
\* the parsererror element in front of the root's children.
ParseFromString(xml, engine) ==
    IF xml.kind = "xml" /\ xml.wellFormed THEN xml.nodes
    ELSE IF engine = "standard" \/ xml.kind = "text" \/ xml.nodes = <<>>
         THEN <<Element(TagParserError, NoAttrs, <<ErrorText>>)>>
    ELSE LET root == xml.nodes[1]
         IN  <<[root EXCEPT !.childNodes =
                    <<Element(TagParserError, NoAttrs, <<ErrorText>>)>> \o @]>>

EmptyParsed == [images |-> <<>>, files |-> <<>>, links |-> <<>>]

\* if (x) for a nullable string: present and not empty
Truthy(opt) == opt # Null /\ opt[1] # <<>>

\* lines 56-71: what one node adds to result
Visit(node, result) ==
    IF node.nodeType # "element" THEN result
    ELSE LET tag == ToLowerCase(node.tagName)
         IN  IF tag = TagImage
             THEN LET src == GetAttribute(node, "src")
                  IN  IF Truthy(src)
                      THEN [result EXCEPT !.images = Append(@, src[1])] ELSE result
             ELSE IF tag = TagFile
             THEN LET url == GetAttribute(node, "url")
                  IN  IF Truthy(url)
                      THEN [result EXCEPT !.files = Append(@, url[1])] ELSE result
             ELSE IF tag = TagLink
             THEN LET href == GetAttribute(node, "href")
                      text == TextContent(node)
                  IN  IF Truthy(href)
                      THEN [result EXCEPT !.links = Append(@, [url |-> href[1], text |-> text])]
                      ELSE result
             ELSE result

\* lines 55-74: walk(node), and NodeList.forEach(walk)
RECURSIVE Walk(_, _)
RECURSIVE WalkAll(_, _)
WalkMutChildrenFirst(node, result) == Visit(node, WalkAll(node.childNodes, result))

Walk(node, result) == WalkAll(node.childNodes, Visit(node, result))

WalkAll(nodes, result) ==
    IF nodes = <<>> THEN result ELSE WalkAll(Tail(nodes), Walk(Head(nodes), result))

IsBlank(xml) == xml.kind = "text" /\ Trim(xml.text) = <<>>

\* lines 46-82
ParseXMLContent(xml, engine) ==
    IF IsBlank(xml) THEN EmptyParsed
    ELSE WalkAll(ParseFromString(xml, engine), EmptyParsed)

-----------------------------------------------------------------------------
(* modalContent, lines 278-379.  A block is a record with the key the code  *)
(* gives the element: <<"p", i>>, <<"img", i, n>>, <<"img-tail", n>>,       *)
(* <<"para", idx>>, <<"link", idx>>, <<"pdf", idx>>; the fallback            *)
(* paragraph has no key.                                                    *)

Output == <<"O","u","t","p","u","t">>
Analysis == <<"A","n","a","l","y","s","i","s">>
Prompt == <<"P","r","o","m","p","t">>

\* line 281: selectedPost.raw?.content ?? ""
XmlOf(post) ==
    IF Has(post, "raw") /\ Has(post.raw, "content") THEN post.raw.content
    ELSE [kind |-> "text", text |-> <<>>]

\* line 284: selectedPost.document ?? selectedPost.raw?.document ?? ""
DocumentTextOf(post) ==
    IF Has(post, "document") THEN post.document
    ELSE IF Has(post, "raw") /\ Has(post.raw, "document") THEN post.raw.document
    ELSE <<>>

\* line 285
LinesOf(documentText) == IF documentText # <<>> THEN Split(documentText, <<NL>>) ELSE <<>>

\* lines 299-305, with line and nextLine trimmed as in lines 292-293
ShouldInsertMutNoColon(imageIndex, images, line, nextLine) ==
    /\ imageIndex < Len(images)
    /\ (\/ nextLine = <<>>
        \/ StartsWith(nextLine, Output)
        \/ StartsWith(nextLine, Analysis)
        \/ StartsWith(nextLine, Prompt))

ShouldInsert(imageIndex, images, line, nextLine) ==
    /\ imageIndex < Len(images)
    /\ (\/ nextLine = <<>>
        \/ StartsWith(nextLine, Output)
        \/ StartsWith(nextLine, Analysis)
        \/ EndsWith(line, <<":">>)
        \/ StartsWith(nextLine, Prompt))

\* lines 291-314: the loop from index i (0-based) on; st = [blocks, imageIndex]
RECURSIVE WalkLines(_, _, _, _)
WalkLines(lines, images, i, st) ==
    IF ~(i < Len(lines)) THEN st
    ELSE LET line == Trim(lines[i + 1])
             nextLine == Trim(IF i < Len(lines) - 1 THEN lines[i + 2] ELSE <<>>)
             b1 == IF line # <<>>
                   THEN Append(st.blocks, [kind |-> "p", key |-> <<"p", i>>, text |-> line])
                   ELSE st.blocks
         IN  IF ShouldInsert(st.imageIndex, images, line, nextLine)
             THEN WalkLines(lines, images, i + 1,
                      [blocks |-> Append(b1, [kind |-> "img",
                                              key |-> <<"img", i, st.imageIndex + 1>>,
                                              src |-> images[st.imageIndex + 1]]),
                       imageIndex |-> st.imageIndex + 1])
             ELSE WalkLines(lines, images, i + 1, [blocks |-> b1, imageIndex |-> st.imageIndex])

\* lines 316-322
RECURSIVE TailImages(_, _)
TailImagesMutNone(images, st) == st

TailImages(images, st) ==
    IF ~(st.imageIndex < Len(images)) THEN st
    ELSE TailImages(images,
             [blocks |-> Append(st.blocks, [kind |-> "img",
                                            key |-> <<"img-tail", st.imageIndex + 1>>,
                                            src |-> images[st.imageIndex + 1]]),
              imageIndex |-> st.imageIndex + 1])

\* lines 324-341
ParagraphBlocks(documentText) ==
    LET split == Split(documentText, <<NL, NL>>)
        trimmed == [k \in 1..Len(split) |-> Trim(split[k])]
        NonEmpty(para) == para # <<>>
        paragraphs == SelectSeq(trimmed, NonEmpty)
    IN  [idx \in 1..Len(paragraphs) |->
            [kind |-> "para", key |-> <<"para", idx - 1>>,
             parts |-> Split(paragraphs[idx], <<NL>>)]]

\* lines 287-342: the text and image blocks
ContentBlocks(documentText, images) ==
    IF documentText # <<>> /\ Len(images) > 0
    THEN TailImages(images,
             WalkLines(LinesOf(documentText), images, 0,
                       [blocks |-> <<>>, imageIndex |-> 0])).blocks
    ELSE IF documentText # <<>> THEN ParagraphBlocks(documentText)
    ELSE <<>>

\* lines 345-354
LinkBlocks(links) ==
    [idx \in 1..Len(links) |->
        [kind |-> "link", key |-> <<"link", idx - 1>>, url |-> links[idx].url,
         text |-> IF Trim(links[idx].text) # <<>> THEN links[idx].text ELSE links[idx].url]]

\* lines 357-370
FileBlocks(files) ==
    [idx \in 1..Len(files) |-> [kind |-> "pdf", key |-> <<"pdf", idx - 1>>, url |-> files[idx]]]

Fallback == [kind |-> "fallback"]

\* lines 372-378
AssembleMutLinksFirst(blocks, linkBlocks, fileBlocks) ==
    linkBlocks \o (IF Len(blocks) > 0 THEN blocks ELSE <<Fallback>>) \o fileBlocks

Assemble(blocks, linkBlocks, fileBlocks) ==
    (IF Len(blocks) > 0 THEN blocks ELSE <<Fallback>>) \o linkBlocks \o fileBlocks

\* lines 278-379, for a selected post
ModalContent(post, engine) ==
    LET px == ParseXMLContent(XmlOf(post), engine)
    IN  Assemble(ContentBlocks(DocumentTextOf(post), px.images),
                 LinkBlocks(px.links), FileBlocks(px.files))

-----------------------------------------------------------------------------
(* Bounds and inputs *)

MaxFileLines == 2
MaxCorpus == 2
MaxBodyLines == 3

\* The lines a corpus text is made of
FileLines ==
    { <<"R1">>, <<"R2">>, <<"R3", SP>>, <<SP>>, <<"bad">>, <<"[", "R1", ",", "R2", "]">> }

FileTexts ==
    {Join(ls, NL) : ls \in SeqsOf(FileLines, 1, MaxFileLines)}
    \cup { <<>>,
           <<"R2", NL, SP, NL, "R1", NL>>,
           <<"[", NL, "R1", NL, "]">>,
           <<"[", "R3", "]">> }

FileNames ==
    { <<"p",".","j","s","o","n">>, <<"p",".","J","S","O","N","L">> }

MsgHttp == "Failed to load posts.jsonl: 404 Not Found"
MsgNetwork == "Failed to fetch"
MsgSyntax == "Unexpected token in JSON"
MsgRead == "The file could not be read"

TitleInputs == { <<>>, <<SP>>, <<SP, "B">> }
AuthorInputs == { <<>>, <<"a">> }

DomEngines == {"standard", "libxml"}

-----------------------------------------------------------------------------
(* The page *)

Init ==
    /\ allPosts = <<>>
    /\ filteredPosts = <<>>
    /\ selectedPost = Null
    /\ loading = TRUE
    /\ loadError = Null
    /\ statusText = "Fetching data..."
    /\ progress = 0
    /\ filtersOpen = FALSE
    /\ statsOpen = FALSE
    /\ filters = EmptyFilters
    /\ cancelled = FALSE
    /\ loadPc = "init"
    /\ uploadPc = "idle"
    /\ effectPending = TRUE
    /\ modalContent = <<>>
    /\ parsed = EmptyParsed
    /\ response = Null
    /\ uploadFile = Null
    /\ domEngine \in DomEngines
    /\ tagUniverse = TagUniverse(<<>>)
    /\ filtersUpdate = Null

\* The effects of the first render: load() up to its first await (lines 116-122),
\* then the filter effect (lines 180-214)
MountEffects ==
    /\ loadPc = "init"
    /\ loading' = TRUE
    /\ loadError' = Null
    /\ statusText' = "Fetching posts.jsonl..."
    /\ progress' = 30
    /\ loadPc' = "fetching"
    /\ filteredPosts' = FilterPosts(allPosts, filters)
    /\ effectPending' = FALSE
    /\ UNCHANGED <<allPosts, tagUniverse, selectedPost, filtersOpen, statsOpen, filters, filtersUpdate, cancelled,
                   uploadPc, modalContent, parsed, response, uploadFile, domEngine>>

\* The cleanup of the mount effect, lines 154-156.  React drops the state updates
\* of an unmounted component.
Unmount ==
    /\ ~cancelled /\ ~effectPending /\ loadPc # "init"
    /\ cancelled' = TRUE
    /\ UNCHANGED <<allPosts, tagUniverse, filteredPosts, selectedPost, loading, loadError, statusText,
                   progress, filtersOpen, statsOpen, filters, filtersUpdate, loadPc, uploadPc,
                   effectPending, modalContent, parsed, response, uploadFile, domEngine>>

\* lines 144-150
LoadCatch(msg) ==
    /\ IF cancelled THEN UNCHANGED <<loadError, loading, progress, statusText>>
       ELSE /\ loadError' = Some(msg)
            /\ loading' = FALSE
            /\ progress' = 0
            /\ statusText' = "Error loading data."
    /\ loadPc' = "failed"
    /\ response' = Null
    /\ UNCHANGED <<allPosts, tagUniverse, filteredPosts, selectedPost, filtersOpen, statsOpen, filters, filtersUpdate,
                   cancelled, uploadPc, effectPending, modalContent, parsed, uploadFile, domEngine>>

\* fetch rejects, or resolves with res.ok false (line 123)
FetchFails ==
    /\ loadPc = "fetching" /\ ~effectPending
    /\ \E msg \in {MsgHttp, MsgNetwork} : LoadCatch(msg)

\* fetch resolves with res.ok, lines 125-128
FetchOk ==
    /\ loadPc = "fetching" /\ ~effectPending
    /\ \E text \in FileTexts : response' = Some(text)
    /\ IF cancelled THEN UNCHANGED <<statusText, progress>>
       ELSE statusText' = "Parsing data..." /\ progress' = 60
    /\ loadPc' = "reading"
    /\ UNCHANGED <<allPosts, tagUniverse, filteredPosts, selectedPost, loading, loadError, filtersOpen,
                   statsOpen, filters, filtersUpdate, cancelled, uploadPc, effectPending, modalContent, parsed,
                   uploadFile, domEngine>>

\* The records installed with no filter effect to follow
InstallMutNoEffect(posts) ==
    /\ allPosts' = posts
    /\ tagUniverse' = TagUniverse(posts)
    /\ filteredPosts' = posts
    /\ filtersOpen' = TRUE
    /\ statsOpen' = TRUE
    /\ progress' = 100
    /\ effectPending' = FALSE

\* lines 135-140 and 263-268
Install(posts) ==
    /\ allPosts' = posts
    /\ tagUniverse' = TagUniverse(posts)
    /\ filteredPosts' = posts
    /\ filtersOpen' = TRUE
    /\ statsOpen' = TRUE
    /\ progress' = 100
    /\ effectPending' = TRUE

\* res.text() resolves, lines 128-150
LoadText ==
    /\ loadPc = "reading" /\ ~effectPending
    /\ LET got == ParseJSONL(response[1])
       IN  IF ~got.ok THEN LoadCatch(MsgSyntax)
           ELSE /\ IF cancelled
                   THEN /\ loadPc' = "cancelled"
                        /\ UNCHANGED <<allPosts, tagUniverse, filteredPosts, filtersOpen, statsOpen,
                                       progress, effectPending, statusText>>
                   ELSE /\ statusText' = "Initializing filters..."
                        /\ Install(got.posts)
                        /\ loadPc' = "timer"
                /\ response' = Null
                /\ UNCHANGED <<selectedPost, loading, loadError, filters, filtersUpdate, cancelled,
                               uploadPc, modalContent, parsed, uploadFile, domEngine>>

\* res.text() rejects
LoadTextRejects ==
    /\ loadPc = "reading" /\ ~effectPending
    /\ LoadCatch(MsgNetwork)

\* the timer of lines 141-143
LoadTimer ==
    /\ loadPc = "timer" /\ ~effectPending
    /\ loading' = (IF cancelled THEN loading ELSE FALSE)
    /\ loadPc' = "done"
    /\ UNCHANGED <<allPosts, tagUniverse, filteredPosts, selectedPost, loadError, statusText, progress,
                   filtersOpen, statsOpen, filters, filtersUpdate, cancelled, uploadPc, effectPending,
                   modalContent, parsed, response, uploadFile, domEngine>>

\* The render condition of the load error text and of the upload control beside
\* it, lines 387 and 393
UploadControlShown == loading /\ loadError # Null

\* handleFileUpload(file) up to its await, lines 241-247
HandleFileUpload(file) ==
    /\ ~cancelled /\ ~effectPending /\ uploadPc = "idle"
    /\ loadError' = Null
    /\ loading' = TRUE
    /\ statusText' = "Reading file..."
    /\ progress' = 40
    /\ uploadPc' = "reading"
    /\ uploadFile' = Some(file)
    /\ UNCHANGED <<allPosts, tagUniverse, filteredPosts, selectedPost, filtersOpen, statsOpen, filters, filtersUpdate,
                   cancelled, loadPc, effectPending, modalContent, parsed, response, domEngine>>

\* lines 270-274
UploadCatch(msg, status) ==
    /\ IF cancelled THEN UNCHANGED <<loadError, loading, progress, statusText>>
       ELSE /\ loadError' = Some(msg)
            /\ loading' = FALSE
            /\ progress' = 0
            /\ statusText' = status
    /\ uploadPc' = "idle"
    /\ uploadFile' = Null
    /\ UNCHANGED <<allPosts, tagUniverse, filteredPosts, selectedPost, filtersOpen, statsOpen, filters, filtersUpdate,
                   cancelled, loadPc, effectPending, modalContent, parsed, response, domEngine>>

\* file.text() resolves, lines 247-274
UploadText ==
    /\ uploadPc = "reading" /\ ~effectPending
    /\ LET got == ParseUpload(uploadFile[1].text, uploadFile[1].name)
       IN  IF ~got.ok THEN UploadCatch(MsgSyntax, "Parsing data...")
           ELSE /\ IF cancelled
                   THEN UNCHANGED <<allPosts, tagUniverse, filteredPosts, filtersOpen, statsOpen,
                                    progress, effectPending, statusText>>
                   ELSE /\ statusText' = "Initializing filters..."
                        /\ Install(got.posts)
                /\ uploadPc' = "timer"
                /\ uploadFile' = Null
                /\ UNCHANGED <<selectedPost, loading, loadError, filters, filtersUpdate, cancelled,
                               loadPc, modalContent, parsed, response, domEngine>>

\* file.text() rejects
UploadTextRejects ==
    /\ uploadPc = "reading" /\ ~effectPending
    /\ UploadCatch(MsgRead, statusText)

\* the timer of line 269
UploadTimer ==
    /\ uploadPc = "timer" /\ ~effectPending
    /\ loading' = (IF cancelled THEN loading ELSE FALSE)
    /\ uploadPc' = "idle"
    /\ UNCHANGED <<allPosts, tagUniverse, filteredPosts, selectedPost, loadError, statusText, progress,
                   filtersOpen, statsOpen, filters, filtersUpdate, cancelled, loadPc, effectPending,
                   modalContent, parsed, response, uploadFile, domEngine>>

\* The filter effect, lines 180-214, run after a render in which filters or allPosts changed
RunFilterEffect ==
    /\ effectPending /\ loadPc # "init"
    /\ filteredPosts' = FilterPosts(allPosts, filters)
    /\ effectPending' = FALSE
    /\ filtersUpdate' = Null
    /\ UNCHANGED <<allPosts, tagUniverse, selectedPost, loading, loadError, statusText, progress,
                   filtersOpen, statsOpen, filters, cancelled, loadPc, uploadPc,
                   modalContent, parsed, response, uploadFile, domEngine>>

\* normalizeTagLabel, lines 84-86: the label a tag button shows
NormalizeTagLabel(tag) == [i \in 1..Len(tag) |-> IF tag[i] = "_" THEN SP ELSE tag[i]]

\* setFilters: the updater was given the criteria object prev and returned next;
\* updated is [prev |-> prev as the updater left it, next |-> next].  next is a
\* new object, so the filter effect is due.
SetFilters(op, updated) ==
    /\ ~cancelled /\ ~effectPending /\ filtersOpen
    /\ filters' = updated.next
    /\ filtersUpdate' = Some([op |-> op, prev |-> updated.prev])
    /\ effectPending' = TRUE
    /\ UNCHANGED <<allPosts, tagUniverse, filteredPosts, selectedPost, loading, loadError,
                   statusText, progress, filtersOpen, statsOpen, cancelled, loadPc, uploadPc,
                   modalContent, parsed, response, uploadFile, domEngine>>

\* line 438
SetTitle(value) ==
    /\ value # filters.title
    /\ SetFilters(<<"title", value>>,
                  [prev |-> filters, next |-> [filters EXCEPT !.title = value]])

\* line 447
SetAuthor(value) ==
    /\ value # filters.author
    /\ SetFilters(<<"author", value>>,
                  [prev |-> filters, next |-> [filters EXCEPT !.author = value]])

\* The set of prev changed in place and prev returned
ToggleUpdaterMutInPlace(prev, kind, value) ==
    LET changed == IF value \in prev[kind] THEN prev[kind] \ {value}
                   ELSE prev[kind] \cup {value}
    IN  [prev |-> [prev EXCEPT ![kind] = changed],
         next |-> [prev EXCEPT ![kind] = changed]]

\* The updater of lines 217-227: next is a copy of prev whose set for kind is a
\* new Set with the values of prev[kind]; the value is deleted from or added to
\* that new Set, and prev is written nowhere
ToggleUpdater(prev, kind, value) ==
    LET copy == prev[kind]
        changed == IF value \in copy THEN copy \ {value} ELSE copy \cup {value}
    IN  [prev |-> prev, next |-> [prev EXCEPT ![kind] = changed]]

\* lines 216-228
ToggleSetFilter(kind, value) ==
    SetFilters(<<"toggle", kind, value>>, ToggleUpdater(filters, kind, value))

\* lines 230-238
ClearFilters == SetFilters(<<"clear">>, [prev |-> filters, next |-> EmptyFilters])

\* line 545: a post card is clicked
SelectPost(i) ==
    /\ ~cancelled /\ ~effectPending
    /\ i \in 1..Len(filteredPosts)
    /\ selectedPost' = Some(filteredPosts[i])
    /\ parsed' = ParseXMLContent(XmlOf(filteredPosts[i]), domEngine)
    /\ modalContent' = ModalContent(filteredPosts[i], domEngine)
    /\ UNCHANGED <<allPosts, tagUniverse, filteredPosts, loading, loadError, statusText, progress,
                   filtersOpen, statsOpen, filters, filtersUpdate, cancelled, loadPc, uploadPc,
                   effectPending, response, uploadFile, domEngine>>

\* lines 585 and 592
CloseModal ==
    /\ ~cancelled /\ ~effectPending
    /\ selectedPost # Null
    /\ selectedPost' = Null
    /\ modalContent' = <<>>
    /\ parsed' = EmptyParsed
    /\ UNCHANGED <<allPosts, tagUniverse, filteredPosts, loading, loadError, statusText, progress,
                   filtersOpen, statsOpen, filters, filtersUpdate, cancelled, loadPc, uploadPc,
                   effectPending, response, uploadFile, domEngine>>

\* The tag buttons are those of tagUniverse, lines 459, 479, 499
FacetKinds == {"models", "topics", "assignments"}
Range(seq) == {seq[i] : i \in 1..Len(seq)}

\* The upload control is rendered with the load error (line 393) inside the section
\* that is rendered while loading (line 387).  No state the page settles into has
\* both, so the model lets the control be used whenever a load error is set: the
\* flow the control is written for.
Next ==
    \/ MountEffects
    \/ Unmount
    \/ FetchFails
    \/ FetchOk
    \/ LoadText
    \/ LoadTextRejects
    \/ LoadTimer
    \/ (loadError # Null /\ \E text \in FileTexts, name \in FileNames :
            HandleFileUpload([name |-> name, text |-> text]))
    \/ UploadText
    \/ UploadTextRejects
    \/ UploadTimer
    \/ RunFilterEffect
    \/ \E value \in TitleInputs : SetTitle(value)
    \/ \E value \in AuthorInputs : SetAuthor(value)
    \/ \E kind \in FacetKinds : \E value \in Range(tagUniverse[kind]) :
            ToggleSetFilter(kind, value)
    \/ ClearFilters
    \/ \E i \in 1..Len(filteredPosts) : SelectPost(i)
    \/ CloseModal

Spec == Init /\ [][Next]_vars

-----------------------------------------------------------------------------
(* The page once a corpus is loaded: the state a successful load, criteria  *)
(* changes and the timer of line 141 lead to, with the filter effect due.   *)

Loaded(posts, f, engine) ==
    /\ allPosts = posts
    /\ filteredPosts = posts
    /\ selectedPost = Null
    /\ loading = FALSE
    /\ loadError = Null
    /\ statusText = "Initializing filters..."
    /\ progress = 100
    /\ filtersOpen = TRUE
    /\ statsOpen = TRUE
    /\ filters = f
    /\ cancelled = FALSE
    /\ loadPc = "done"
    /\ uploadPc = "idle"
    /\ effectPending = TRUE
    /\ modalContent = <<>>
    /\ parsed = EmptyParsed
    /\ response = Null
    /\ uploadFile = Null
    /\ domEngine = engine
    /\ tagUniverse = TagUniverse(posts)
    /\ filtersUpdate = Null

-----------------------------------------------------------------------------
(* The filter over a wider choice of documents and criteria *)

FilterDocs ==
    { [title |-> <<"A","b">>, author_name |-> <<"A">>,
       cluster_metadata |-> [model_ids |-> <<M1>>, topic_category_ids |-> <<T1>>,
                             post_type_category_ids |-> <<A1>>]],
      [title |-> <<"b","A">>,
       cluster_metadata |-> [model_ids |-> <<M2, M1>>]],
      [author_name |-> <<"b">>,
       cluster_metadata |-> [model_ids |-> <<M1>>, topic_category_ids |-> <<T2>>]],
      [title |-> <<>>],
      [title |-> <<"A","b">>, author_name |-> <<"b",SP,"a">>,
       cluster_metadata |-> [topic_category_ids |-> <<T1, T2>>]],
      [title |-> <<"B">>, author_name |-> <<"A">>,
       cluster_metadata |-> [model_ids |-> <<>>, topic_category_ids |-> <<T1>>,
                             post_type_category_ids |-> <<A1>>]],
      [title |-> <<"a","b">>, author_name |-> <<"a">>,
       cluster_metadata |-> [model_ids |-> <<M2>>, topic_category_ids |-> <<T1>>]],
      [array |-> <<>>] }

FilterCriteria ==
    [title : { <<>>, <<SP>>, <<SP,"B">>, <<"a","B",SP>> },
     author : { <<>>, <<"a">> },
     models : SUBSET {M1, M2},
     topics : SUBSET {T1, T2},
     assignments : SUBSET {A1}]

FilterInit ==
    \E posts \in SeqsOf(FilterDocs, 0, MaxCorpus), f \in FilterCriteria :
        Loaded(posts, f, "standard")

FilterNext == RunFilterEffect

FilterSpec == FilterInit /\ [][FilterNext]_vars

-----------------------------------------------------------------------------
(* The modal over a wider choice of bodies and markup *)

MaxKids == 2

SrcA == <<"a">>
SrcB == <<"b">>
SrcC == <<"c">>
UrlF == <<"f">>
HrefH == <<"h">>
TagX == <<"x">>

ImgA == Element(TagImage, [src |-> SrcA], <<>>)
ImgB == Element(<<"I","m","A","G","E">>, [src |-> SrcB], <<>>)
ImgEmptySrc == Element(TagImage, [src |-> <<>>], <<>>)
FileF == Element(<<"F","i","l","e">>, [url |-> UrlF], <<>>)
TextGo == TextNode(<<"g","o">>)
LinkEmptyHref == Element(TagLink, [href |-> <<>>], <<>>)
LinkH == Element(TagLink, [href |-> HrefH], <<TextGo>>)

\* One level: an element and up to MaxKids children
KidNodes == {ImgA, ImgB, ImgEmptySrc, FileF, TextGo, LinkEmptyHref}

Shells ==
    { [tag |-> TagX, attrs |-> NoAttrs],
      [tag |-> <<"L","i","n","k">>, attrs |-> [href |-> HrefH]],
      [tag |-> TagLink, attrs |-> NoAttrs],
      [tag |-> TagImage, attrs |-> [src |-> SrcC]],
      [tag |-> TagFile, attrs |-> NoAttrs] }

Trees1 ==
    {Element(sh.tag, sh.attrs, kids) : sh \in Shells, kids \in SeqsOf(KidNodes, 0, MaxKids)}

\* Deeper: recognized elements inside recognized and unrecognized ones
NestedNodes ==
    { Element(TagLink, [href |-> HrefH],
              <<TextNode(<<"g">>), Element(TagX, NoAttrs, <<TextNode(<<"o">>), ImgA>>)>>),
      Element(TagX, NoAttrs, <<ImgA, Element(TagX, NoAttrs, <<FileF, ImgB>>)>>),
      Element(TagImage, [src |-> SrcC], <<ImgA>>),
      ImgA,
      FileF }

Trees2 == {Element(TagX, NoAttrs, kids) : kids \in SeqsOf(NestedNodes, 1, 2)}

XmlMarkups ==
    {[kind |-> "xml", wellFormed |-> w, nodes |-> <<t>>] :
        t \in Trees1 \cup Trees2, w \in BOOLEAN}
    \cup {[kind |-> "xml", wellFormed |-> FALSE, nodes |-> <<>>]}

TextMarkups ==
    {[kind |-> "text", text |-> t] : t \in { <<>>, <<SP, NL>>, <<"a","b">> }}

\* Markup with 0 to 3 images, and links and files beside them
FlatMarkups ==
    {[kind |-> "xml", wellFormed |-> TRUE, nodes |-> <<Element(TagX, NoAttrs, kids)>>] :
        kids \in { <<LinkH>>, <<ImgA>>, <<FileF, ImgA, LinkH, ImgB>>, <<ImgA, ImgB, ImgA>> }}

BodyLines ==
    { <<>>, <<SP>>, <<"t">>, <<"s",":",SP>>, <<SP,"O","u","t","p","u","t">>,
      <<"A","n","a","l","y","s","i","s","x">>, <<"P","r","o","m","p","t">>,
      <<"O","u","t">> }

Bodies == {Join(ls, NL) : ls \in SeqsOf(BodyLines, 1, MaxBodyLines)}

FewBodies == { <<"s",":",NL,"t">>, <<SP>> }

RenderDocs ==
    {[document |-> b, raw |-> [content |-> m]] : b \in Bodies, m \in FlatMarkups}
    \cup {[raw |-> [document |-> b, content |-> m]] :
             b \in FewBodies, m \in XmlMarkups \cup TextMarkups}
    \cup {[title |-> <<"t">>]}
    \cup {[document |-> b] : b \in FewBodies}
    \cup {[raw |-> [content |-> m]] : m \in FlatMarkups}
    \cup {[document |-> <<>>, raw |-> [document |-> b, content |-> m]] :
             b \in FewBodies, m \in FlatMarkups}

RenderInit ==
    \E doc \in RenderDocs, engine \in DomEngines :
        Loaded(<<doc>>, EmptyFilters, engine) 

RenderNext ==
    \/ RunFilterEffect
    \/ SelectPost(1)
    \/ CloseModal

RenderSpec == RenderInit /\ [][RenderNext]_vars

-----------------------------------------------------------------------------
(* The page with a corpus loaded, on which handleFileUpload is called       *)
(* again: the handler as it is written, without the render condition of     *)
(* its control (line 387), so that a corpus replaces another and meets      *)
(* criteria that are not empty.  One upload runs at a time.                 *)

ReplaceCorpora == { <<>>, <<PostR1>>, <<PostR2, PostR1>> }

ReplaceTexts ==
    { <<"R1">>, <<"R1", NL, "R2">>, <<"[", "R3", ",", "R2", "]">>, <<"bad">>, <<SP>> }

ReplaceInit ==
    \E posts \in ReplaceCorpora : Loaded(posts, EmptyFilters, "standard")

ReplaceNext ==
    \/ \E text \in ReplaceTexts, name \in FileNames :
            HandleFileUpload([name |-> name, text |-> text])
    \/ UploadText
    \/ UploadTextRejects
    \/ UploadTimer
    \/ RunFilterEffect
    \/ \E value \in TitleInputs : SetTitle(value)
    \/ \E value \in AuthorInputs : SetAuthor(value)
    \/ \E kind \in FacetKinds : \E value \in Range(tagUniverse[kind]) :
            ToggleSetFilter(kind, value)
    \/ ClearFilters
    \/ \E i \in 1..Len(filteredPosts) : SelectPost(i)
    \/ CloseModal

ReplaceSpec == ReplaceInit /\ [][ReplaceNext]_vars

-----------------------------------------------------------------------------
(* Properties of the filter *)

\* A document's values for a facet group, as a set; none when the group or
\* cluster_metadata is missing
GroupSet(post, field) ==
    IF "cluster_metadata" \in DOMAIN post
    THEN IF field \in DOMAIN post.cluster_metadata
         THEN {post.cluster_metadata[field][i] : i \in 1..Len(post.cluster_metadata[field])}
         ELSE {}
    ELSE {}

FacetRule(post, f) ==
    /\ f.models = {} \/ GroupSet(post, "model_ids") \cap f.models # {}
    /\ f.topics = {} \/ GroupSet(post, "topic_category_ids") \cap f.topics # {}
    /\ f.assignments = {} \/ GroupSet(post, "post_type_category_ids") \cap f.assignments # {}

\* The query, trimmed, is empty, or the field is there and holds it, case folded
TextRule(post, field, query) ==
    LET q == Trim(query)
    IN  \/ q = <<>>
        \/ /\ field \in DOMAIN post
           /\ \E i \in 1..(Len(post[field]) - Len(q) + 1) :
                \A k \in 1..Len(q) : LowerChar(post[field][i + k - 1]) = LowerChar(q[k])

Visible(post) == \E i \in 1..Len(filteredPosts) : filteredPosts[i] = post

\* C1: once the filter has run, every visible document meets the facet rule (for
\* each group with a non-empty selection, one of the document's own values is
\* selected; a missing group counts as empty), and a document of the corpus that
\* meets the facet rule is kept out by the text queries alone
C1_FacetFiltering ==
    ~effectPending =>
        \A i \in 1..Len(allPosts) :
            LET post == allPosts[i]
            IN  /\ Visible(post) => FacetRule(post, filters)
                /\ (Trim(filters.title) = <<>> /\ Trim(filters.author) = <<>>)
                      => (Visible(post) <=> FacetRule(post, filters))

\* C1 witness: two groups are selected; one document matches both and is visible,
\* another matches the models but lacks the topics group and is not
C1_Witness ==
    /\ ~effectPending
    /\ filters.models # {} /\ filters.topics # {}
    /\ \E i, j \in 1..Len(allPosts) :
         /\ Visible(allPosts[i])
         /\ ~Visible(allPosts[j])
         /\ GroupSet(allPosts[j], "model_ids") \cap filters.models # {}
         /\ GroupSet(allPosts[j], "topic_category_ids") = {}

\* C2: once the filter has run, a document of the corpus is visible exactly when
\* the title rule, the author rule and the facet rule all hold for it
C2_TextFiltering ==
    ~effectPending =>
        \A i \in 1..Len(allPosts) :
            LET post == allPosts[i]
            IN  Visible(post) <=>
                   /\ TextRule(post, "title", filters.title)
                   /\ TextRule(post, "author_name", filters.author)
                   /\ FacetRule(post, filters)

\* C2 witness: a title query in another case than the title it matches, with a
\* document without a title left out
C2_Witness ==
    /\ ~effectPending
    /\ Trim(filters.title) # <<>>
    /\ \E i, j \in 1..Len(allPosts) :
         /\ Visible(allPosts[i])
         /\ ~Includes(allPosts[i].title, Trim(filters.title))
         /\ "title" \notin DOMAIN allPosts[j]
         /\ ~Visible(allPosts[j])

EmptyCriteria(f) ==
    /\ f.title = <<>> /\ f.author = <<>>
    /\ f.models = {} /\ f.topics = {} /\ f.assignments = {}

\* C3: with empty criteria and the filter run, the visible list is the corpus:
\* the same documents in the same order
C3_EmptyCriteriaIdentity ==
    (EmptyCriteria(filters) /\ ~effectPending) => filteredPosts = allPosts

\* C3 witness: empty criteria, the filter run, over a corpus of two or more
\* documents, one of them without a title
C3_Witness ==
    /\ EmptyCriteria(filters) /\ ~effectPending /\ filtersOpen
    /\ Len(allPosts) >= 2
    /\ filteredPosts = allPosts
    /\ \E i \in 1..Len(allPosts) : "title" \notin DOMAIN allPosts[i]

-----------------------------------------------------------------------------
(* Properties of the modal *)

Selected == selectedPost # Null

SelText == DocumentTextOf(selectedPost[1])
SelLines == Split(SelText, <<NL>>)

\* Mode A: a body that is not empty, and at least one image
ModeA == Selected /\ SelText # <<>> /\ Len(parsed.images) > 0

IsWalkBlock(b) == b.kind = "p" \/ (b.kind = "img" /\ b.key[1] = "img")
IsTailBlock(b) == b.kind = "img" /\ b.key[1] = "img-tail"
IsImageBlock(b) == b.kind = "img"

\* The trigger of the claim after line i (1-based)
Trigger(i) ==
    LET cur == Trim(SelLines[i])
        nxt == IF i = Len(SelLines) THEN <<>> ELSE Trim(SelLines[i + 1])
    IN  \/ nxt = <<>>
        \/ (Len(nxt) >= 6 /\ SubSeq(nxt, 1, 6) = <<"O","u","t","p","u","t">>)
        \/ (Len(nxt) >= 8 /\ SubSeq(nxt, 1, 8) = <<"A","n","a","l","y","s","i","s">>)
        \/ (Len(nxt) >= 6 /\ SubSeq(nxt, 1, 6) = <<"P","r","o","m","p","t">>)
        \/ (cur # <<>> /\ cur[Len(cur)] = ":")

\* How many lines before line i trigger
TriggersBefore(i) == Cardinality({j \in 1..(i - 1) : Trigger(j)})

\* An image is placed after line i: the trigger holds and images remain
PlacedAfter(i) == Trigger(i) /\ TriggersBefore(i) < Len(parsed.images)

\* The blocks the walk emitted for line i (1-based; the keys count from 0)
LineBlocks(i) ==
    {k \in 1..Len(modalContent) :
        IsWalkBlock(modalContent[k]) /\ modalContent[k].key[2] = i - 1}

\* C4: in Mode A, for every line: one Paragraph of the trimmed line exactly when
\* the trimmed line is not empty; one ImageBlock, of the next unplaced image,
\* exactly when the trigger holds and images remain, and no more than one; the
\* line's blocks are adjacent, the Paragraph first, and the lines' blocks follow
\* in line order
C4_ModeAInsertion ==
    ModeA =>
        \A i \in 1..Len(SelLines) :
            LET ps == {k \in LineBlocks(i) : modalContent[k].kind = "p"}
                is == {k \in LineBlocks(i) : modalContent[k].kind = "img"}
            IN  /\ Cardinality(ps) = (IF Trim(SelLines[i]) # <<>> THEN 1 ELSE 0)
                /\ \A k \in ps : modalContent[k].text = Trim(SelLines[i])
                /\ Cardinality(is) = (IF PlacedAfter(i) THEN 1 ELSE 0)
                /\ \A k \in is : modalContent[k].src = parsed.images[TriggersBefore(i) + 1]
                /\ \A k \in ps, l \in is : l = k + 1
                /\ \A j \in 1..(i - 1) : \A k \in LineBlocks(j), l \in LineBlocks(i) : k < l

\* C4 witness: a line ending with a colon that is followed by a line of text and
\* by its image, and a later trigger with no image left to place
C4_Witness ==
    /\ ModeA
    /\ \E i \in 1..(Len(SelLines) - 1) :
         /\ EndsWith(Trim(SelLines[i]), <<":">>)
         /\ Trim(SelLines[i + 1]) # <<>>
         /\ ~StartsWith(Trim(SelLines[i + 1]), Output)
         /\ PlacedAfter(i)
    /\ \E i \in 1..Len(SelLines) : Trigger(i) /\ ~PlacedAfter(i)

ImageBlockSrcs ==
    LET Img(b) == IsImageBlock(b)
        imgs == SelectSeq(modalContent, Img)
    IN  [k \in 1..Len(imgs) |-> imgs[k].src]

\* C5: in Mode A, the trailing ImageBlocks come after every Paragraph and every
\* ImageBlock of the walk, and the ImageBlocks read in order are the images
C5_ModeATail ==
    ModeA =>
        /\ \A k, l \in 1..Len(modalContent) :
              (IsTailBlock(modalContent[k]) /\ IsWalkBlock(modalContent[l])) => l < k
        /\ ImageBlockSrcs = parsed.images

\* C5 witness: a Paragraph, an image placed by the walk and two trailing images
C5_Witness ==
    /\ ModeA
    /\ \E k \in 1..Len(modalContent) : modalContent[k].kind = "p"
    /\ \E k \in 1..Len(modalContent) :
          modalContent[k].kind = "img" /\ IsWalkBlock(modalContent[k])
    /\ Cardinality({k \in 1..Len(modalContent) : IsTailBlock(modalContent[k])}) >= 2

\* C8: the rendered sequence ends with one block per link, in the order of
\* parsed.links, then one block per file, in the order of parsed.files; what
\* precedes them is the text and image blocks, or the fallback message alone
C8_LinksFilesLast ==
    Selected =>
        LET n == Len(modalContent)
            nl == Len(parsed.links)
            nf == Len(parsed.files)
            nb == n - nl - nf
        IN  /\ nb >= 1
            /\ \A k \in 1..nb : modalContent[k].kind \in {"p", "img", "para", "fallback"}
            /\ (modalContent[1].kind = "fallback") => nb = 1
            /\ \A k \in 1..nl :
                  /\ modalContent[nb + k].kind = "link"
                  /\ modalContent[nb + k].url = parsed.links[k].url
            /\ \A k \in 1..nf :
                  /\ modalContent[nb + nl + k].kind = "pdf"
                  /\ modalContent[nb + nl + k].url = parsed.files[k]

\* C8 witness: Mode A blocks followed by a link block and a file block
C8_Witness ==
    /\ ModeA
    /\ Len(parsed.links) >= 1 /\ Len(parsed.files) >= 1
    /\ modalContent[1].kind = "p"

-----------------------------------------------------------------------------
(* Properties of the markup walk *)

SelXml == XmlOf(selectedPost[1])

\* The nodes the parser handed to the walk
DocNodes == ParseFromString(SelXml, domEngine)

\* The paths (child indexes from the top) of the nodes below a node list
RECURSIVE PathsOf(_)
PathsOf(nodes) ==
    UNION {{<<i>>} \cup {<<i>> \o p : p \in PathsOf(nodes[i].childNodes)} : i \in 1..Len(nodes)}

RECURSIVE NodeAt(_, _)
NodeAt(nodes, path) ==
    IF Len(path) = 1 THEN nodes[path[1]]
    ELSE NodeAt(nodes[path[1]].childNodes, Tail(path))

\* Document order: an ancestor before its descendants, an earlier sibling's
\* subtree before a later one's
DocBefore(p, q) ==
    \/ (Len(p) < Len(q) /\ SubSeq(q, 1, Len(p)) = p)
    \/ \E k \in 1..Len(p) :
          /\ k <= Len(q)
          /\ SubSeq(p, 1, k - 1) = SubSeq(q, 1, k - 1)
          /\ p[k] < q[k]

\* A set of paths as the sequence in document order
InDocOrder(S) ==
    [i \in 1..Cardinality(S) |->
        CHOOSE p \in S : Cardinality({q \in S : DocBefore(q, p)}) = i - 1]

RECURSIVE Concat(_)
Concat(strs) == IF strs = <<>> THEN <<>> ELSE Head(strs) \o Concat(Tail(strs))

IsElementNamed(node, name) ==
    /\ node.nodeType = "element"
    /\ Len(node.tagName) = Len(name)
    /\ \A k \in 1..Len(name) : LowerChar(node.tagName[k]) = name[k]

\* The elements of a name that carry an attribute, and those that carry it non-empty
WithAttr(name, attr) ==
    {p \in PathsOf(DocNodes) :
        IsElementNamed(NodeAt(DocNodes, p), name) /\ attr \in DOMAIN NodeAt(DocNodes, p).attrs}

WithValue(name, attr) ==
    {p \in WithAttr(name, attr) : NodeAt(DocNodes, p).attrs[attr] # <<>>}

\* The text of the text nodes below a path, in document order
FlatText(p) ==
    LET below == {q \in PathsOf(DocNodes) :
                     Len(q) > Len(p) /\ SubSeq(q, 1, Len(p)) = p
                     /\ NodeAt(DocNodes, q).nodeType = "text"}
        ordered == InDocOrder(below)
    IN  Concat([i \in 1..Len(ordered) |-> NodeAt(DocNodes, ordered[i]).data])

AttrValues(paths, attr) ==
    LET ordered == InDocOrder(paths)
    IN  [i \in 1..Len(ordered) |-> NodeAt(DocNodes, ordered[i]).attrs[attr]]

LinksOf(paths) ==
    LET ordered == InDocOrder(paths)
    IN  [i \in 1..Len(ordered) |->
            [url |-> NodeAt(DocNodes, ordered[i]).attrs.href, text |-> FlatText(ordered[i])]]

\* C6 as stated: images and files are the non-empty src and url values, links
\* the link elements whose href is present, all in document order
C6_ExtractionAsStated ==
    (Selected /\ ~IsBlank(SelXml)) =>
        /\ parsed.images = AttrValues(WithValue(<<"i","m","a","g","e">>, "src"), "src")
        /\ parsed.files = AttrValues(WithValue(<<"f","i","l","e">>, "url"), "url")
        /\ parsed.links = LinksOf(WithAttr(<<"l","i","n","k">>, "href"))

\* C6, amended: as stated, but a link contributes only when its href is present
\* and not empty, as for the src of an image and the url of a file
C6_Extraction ==
    (Selected /\ ~IsBlank(SelXml)) =>
        /\ parsed.images = AttrValues(WithValue(<<"i","m","a","g","e">>, "src"), "src")
        /\ parsed.files = AttrValues(WithValue(<<"f","i","l","e">>, "url"), "url")
        /\ parsed.links = LinksOf(WithValue(<<"l","i","n","k">>, "href"))

\* C6 witness: a well-formed tree in which a link holds text at two depths and an
\* image three levels down, an image repeats, and a link with an empty href is skipped
C6_Witness ==
    /\ Selected /\ SelXml.kind = "xml" /\ SelXml.wellFormed
    /\ \E p \in WithValue(TagLink, "href") :
          /\ FlatText(p) = <<"g","o">>
          /\ \E q \in WithValue(TagImage, "src") : Len(q) = Len(p) + 2 /\ DocBefore(p, q)
    /\ Len(parsed.images) >= 2
    /\ \E i, j \in 1..Len(parsed.images) : i < j /\ parsed.images[i] = parsed.images[j]

\* C6 witness of the amendment: a link whose href is empty, beside extracted references
C6_WitnessEmptyHref ==
    /\ Selected /\ SelXml.kind = "xml" /\ SelXml.wellFormed
    /\ WithAttr(TagLink, "href") # WithValue(TagLink, "href")
    /\ Len(parsed.links) >= 1 /\ Len(parsed.images) >= 1

\* C7: for a markup body that is blank or not well formed, the result is the
\* all-empty one, and the body text is rendered all the same
C7_FailurePolicy ==
    (Selected /\ (SelXml.kind = "text" \/ ~SelXml.wellFormed)) =>
        /\ parsed = EmptyParsed
        /\ Trim(SelText) # <<>> =>
              \E k \in 1..Len(modalContent) : modalContent[k].kind \in {"p", "para"}

-----------------------------------------------------------------------------
(* Properties of the loaders *)

NonBlankLines(text) ==
    LET NonBlank(l) == Trim(l) # <<>>
    IN  SelectSeq(Split(text, <<NL>>), NonBlank)

\* Every non-blank line of the text is a JSON value
AllLinesValid(text) ==
    \A i \in 1..Len(NonBlankLines(text)) : JSONParse(NonBlankLines(text)[i]).ok

\* One record per non-blank line
LineRecords(text) ==
    [i \in 1..Len(NonBlankLines(text)) |-> JSONParse(NonBlankLines(text)[i]).value]

\* The records of a text that is one JSON value: the items of an array, or the value
SingleRecords(text) ==
    LET v == JSONParse(text).value
    IN  IF "array" \in DOMAIN v THEN v.array ELSE <<v>>

CorpusSame == allPosts' = allPosts /\ filteredPosts' = filteredPosts

\* C9, one step: a failed fetch, a text with an invalid line (load) or that is
\* valid in neither format (upload), and any step that sets the load error, leave
\* the corpus and the visible list as they were; a step that changes the corpus
\* is a loader taking all the records of its text, the visible list with it
C9_Step ==
    /\ (loadPc = "fetching" /\ loadPc' = "failed") => CorpusSame
    /\ (loadError' # Null /\ loadError' # loadError) => CorpusSame
    /\ (loadPc = "reading" /\ loadPc' # "reading") =>
          /\ ~AllLinesValid(response[1]) => CorpusSame
          /\ CorpusSame
             \/ (allPosts' = LineRecords(response[1]) /\ filteredPosts' = allPosts')
    /\ (uploadPc = "reading" /\ uploadPc' # "reading") =>
          LET text == uploadFile[1].text
          IN  /\ (~AllLinesValid(text) /\ ~JSONParse(text).ok) => CorpusSame
              /\ \/ CorpusSame
                 \/ /\ AllLinesValid(text)
                    /\ allPosts' = LineRecords(text) /\ filteredPosts' = allPosts'
                 \/ /\ JSONParse(text).ok
                    /\ allPosts' = SingleRecords(text) /\ filteredPosts' = allPosts'
    /\ allPosts' # allPosts =>
          \/ (loadPc = "reading" /\ loadPc' = "timer")
          \/ (uploadPc = "reading" /\ uploadPc' = "timer")

C9_NoPartialInstall == [][C9_Step]_vars

\* C9 witness: an upload whose text did not parse has ended, after a load whose
\* text did not parse either, and nothing is installed
C9_Witness ==
    /\ loadPc = "failed" /\ uploadPc = "idle"
    /\ loadError = Some(MsgSyntax)
    /\ statusText = "Parsing data..."
    /\ allPosts = <<>> /\ filteredPosts = <<>>

\* The load error text is on the page: lines 387-396 render it inside the section
\* that is rendered while loading
ErrorTextShown == loading /\ loadError # Null

\* C10: once a load has failed, the load error text is shown
C10_ErrorShown ==
    (~cancelled /\ loadError # Null) => ErrorTextShown

-----------------------------------------------------------------------------
(* The format an upload is read in *)

JsonlName(name) == EndsWith(ToLowerCase(name), <<".","j","s","o","n","l">>)

\* The step in which handleFileUpload takes the text of its file (the file was read)
UploadParses ==
    /\ uploadPc = "reading" /\ uploadPc' # "reading"
    /\ ~cancelled
    /\ loadError' # Some(MsgRead)

\* What the step does when the text is read as one JSON value (single), or as one
\* record per non-blank line: the records are installed, or the load fails
UploadOutcome(text, single) ==
    LET ok == IF single THEN JSONParse(text).ok ELSE AllLinesValid(text)
        records == IF single THEN SingleRecords(text) ELSE LineRecords(text)
    IN  IF ok THEN allPosts' = records /\ loadError' = Null /\ uploadPc' = "timer"
        ELSE allPosts' = allPosts /\ loadError' = Some(MsgSyntax) /\ uploadPc' = "idle"

\* C11: an upload is read as one JSON value exactly when its text has exactly one
\* non-blank line and its name does not end in .jsonl; a text with no non-blank
\* line, with two or more, or with a .jsonl name is read one record per
\* non-blank line
C11_FormatSelection ==
    [][UploadParses =>
          LET file == uploadFile[1]
          IN  UploadOutcome(file.text,
                            Len(NonBlankLines(file.text)) = 1 /\ ~JsonlName(file.name))]_vars

\* The selection of lines 252-253: one JSON value when the text has at most one
\* non-blank line and the name does not end in .jsonl
C11_SelectionOfCode ==
    [][UploadParses =>
          LET file == uploadFile[1]
          IN  UploadOutcome(file.text,
                            Len(NonBlankLines(file.text)) <= 1 /\ ~JsonlName(file.name))]_vars

\* An upload of a blank text under a name that does not end in .jsonl has failed
C11_BlankUploadFailed ==
    /\ uploadPc = "idle" /\ loadError = Some(MsgSyntax)
    /\ statusText = "Parsing data..."
    /\ loadPc = "failed"

-----------------------------------------------------------------------------
(* Properties of the tag universe *)

TagFieldOf(kind) ==
    CASE kind = "models" -> "model_ids"
      [] kind = "topics" -> "topic_category_ids"
      [] kind = "assignments" -> "post_type_category_ids"

\* The values of a group over the corpus
CorpusValues(kind) ==
    UNION {GroupSet(allPosts[i], TagFieldOf(kind)) : i \in 1..Len(allPosts)}

\* Ascending with no value twice
StrictlySorted(seq) ==
    \A i \in 1..(Len(seq) - 1) : StrLess(seq[i], seq[i + 1])

TagUniverseOfCorpus ==
    \A kind \in FacetKinds :
        /\ Range(tagUniverse[kind]) = CorpusValues(kind)
        /\ StrictlySorted(tagUniverse[kind])

TagUniverseStep ==
    /\ tagUniverse' # tagUniverse => allPosts' # allPosts
    /\ (filters' # filters \/ selectedPost' # selectedPost) => tagUniverse' = tagUniverse

\* C12: in every state each of the three tag sequences holds exactly the values
\* of its group over the documents of the corpus (a document without the group
\* gives none), in ascending order of strings and each once; it changes only in
\* a step that replaces the corpus, never in a criteria change or a selection
C12_TagUniverse == []TagUniverseOfCorpus /\ [][TagUniverseStep]_vars

\* C12 witness: a corpus that replaced another, whose documents name the models
\* m_1, M2, m_1 in that order, one document with no group; a model is selected
\* in the criteria and a document is open
C12_Witness ==
    /\ allPosts = <<PostR1, PostR2>>
    /\ tagUniverse.models = <<M2, M1>>
    /\ tagUniverse.topics = <<T1>>
    /\ filters.models # {}
    /\ selectedPost # Null

-----------------------------------------------------------------------------
(* Images and the body text *)

\* C13: for every selected document, whatever its body text is (absent, empty,
\* blank or not), the ImageBlocks of the rendered sequence, read in order, are
\* the images extracted from its markup, each once
C13_NoImageDropped ==
    Selected => ImageBlockSrcs = parsed.images

\* The images of a document are rendered whenever it has a body text that is not
\* empty; with no body text or an empty one no image is rendered
C13_ImagesNeedBody ==
    Selected =>
        ImageBlockSrcs = (IF SelText # <<>> THEN parsed.images ELSE <<>>)

-----------------------------------------------------------------------------
(* The visible list, the corpus and the criteria *)

\* The documents of the corpus the criteria keep, in corpus order
Kept(post) ==
    /\ TextRule(post, "title", filters.title)
    /\ TextRule(post, "author_name", filters.author)
    /\ FacetRule(post, filters)

VisibleOfCorpus == SelectSeq(allPosts, Kept)

\* A step of the filter effect
Recomputes == effectPending /\ ~effectPending'

\* C14: after any corpus loads and criteria changes (title, author, facet
\* toggle, clear-all), in every state with no filter recomputation pending the
\* visible list is the filter applied to the current corpus and criteria, also
\* when the corpus was installed under criteria that are not empty; and a
\* recomputation changes neither the corpus nor the criteria
C14_VisibleTracks ==
    /\ [](~effectPending => filteredPosts = VisibleOfCorpus)
    /\ [][Recomputes => (allPosts' = allPosts /\ filters' = filters)]_vars

\* C14 witness: the corpus <<PostR1>> was installed by an upload while the model
\* M2, which no document of it has, was selected (no button offers M2 since);
\* the recomputation has run and the visible list is empty
C14_Witness ==
    /\ ~effectPending
    /\ uploadPc = "timer"
    /\ allPosts = <<PostR1>>
    /\ filters.models = {M2}
    /\ filteredPosts = <<>>

-----------------------------------------------------------------------------
(* Toggling a facet value *)

\* A step in which a tag button's handler ran
ToggleStep ==
    /\ filtersUpdate = Null /\ filtersUpdate' # Null
    /\ filtersUpdate'[1].op[1] = "toggle"

ToggleEffect ==
    LET kind == filtersUpdate'[1].op[2]
        value == filtersUpdate'[1].op[3]
    IN  /\ filters'[kind] = (IF value \in filters[kind] THEN filters[kind] \ {value}
                             ELSE filters[kind] \cup {value})
        /\ filters'.title = filters.title
        /\ filters'.author = filters.author
        /\ \A k \in FacetKinds \ {kind} : filters'[k] = filters[k]
        /\ filtersUpdate'[1].prev = filters
        /\ ToggleUpdater(filters', kind, value).next = filters
        /\ value \in CorpusValues(kind)

\* C15: a toggle gives a new criteria value whose set for the group is the old
\* set plus the value when it was absent and minus the value when it was present;
\* the title query, the author query and the other two groups are as before, the
\* previous criteria object still holds what it held, the same toggle applied to
\* the result gives back the original criteria, and the value is a facet id as
\* the documents of the corpus carry it (with its underscores), not its label
C15_ToggleFrame == [][ToggleStep => ToggleEffect]_vars

\* C15 witness: the model m_1, whose label is "m 1", has just been toggled off
\* under criteria with a title query and a selected topic
C15_Witness ==
    /\ filtersUpdate # Null
    /\ filtersUpdate[1].op = <<"toggle", "models", M1>>
    /\ NormalizeTagLabel(M1) # M1
    /\ M1 \in filtersUpdate[1].prev.models
    /\ M1 \notin filters.models
    /\ filters.title # <<>>
    /\ filters.topics # {}

====
